---- MODULE Spec2Model ----
(***************************************************************************)
(* Interval Marker of CMORE-GT-GEN (src/attempt_labeler.py): the key loop  *)
(* of main() and handle_rewind_and_undo(), with the CSV store.             *)
(*                                                                         *)
(* One action per key.  An action is one whole iteration of the loop: the  *)
(* key handler followed by the seek-and-read at the top of the next        *)
(* iteration (lines 257-266), after which the loop waits for a key again.  *)
(* The on-screen message and its timer are display only and are not        *)
(* modelled.                                                               *)
(*                                                                         *)
(* Attempt Classifier (src/attempt_classifier.py): the two nested loops of *)
(* main().  One action per branch of the key handler, and one for the      *)
(* clamp-seek-read at the top of the inner loop.                           *)
(*                                                                         *)
(* A specification runs one of the two programs; the variables of the      *)
(* other keep their initial values.                                        *)
(***************************************************************************)
EXTENDS Integers, Sequences, FiniteSets, TLC

\* ---------------------------------------------------------------- bounds
\* Frames of the short video of Spec (cap.get(CAP_PROP_FRAME_COUNT), an
\* input): every key is pressed on it.
ShortFrames == 3
\* Cap on the number of recorded attempts under Spec (the code has none).
MaxAttempts == 2
\* Frames of the long video of SpecLong, on which a step of ten frames lands
\* inside the video as well as on its ends.
LongFrames == 12
\* Cap on the number of recorded attempts under SpecLong.
LongAttempts == 1

\* The frame rate the frame source reports.  With 2 frames per second every
\* time frame/fps is a multiple of 0.5, so its float value and its text are
\* computed exactly below.
fps == 2

\* ------------------------------------------------------ optional values
\* Python's None and a present value v.
None == <<>>
Some(v) == <<v>>
IsNone(o) == o = <<>>
Val(o) == o[1]

\* ------------------------------------------------------- text of values
Digits == <<"0", "1", "2", "3", "4", "5", "6", "7", "8", "9">>

RECURSIVE IntStr(_)
\* str(n) of a non-negative int, as the sequence of its characters.
IntStr(n) == IF n < 10 THEN <<Digits[n + 1]>>
             ELSE IntStr(n \div 10) \o <<Digits[(n % 10) + 1]>>

\* A float frame/fps is held as its number of half seconds (fps = 2).
TimeOf(frame) == frame

\* str(t) of such a float: "7.0", "7.5".
FloatStr(t) == IntStr(t \div fps) \o <<".">> \o
               (IF t % fps = 0 THEN <<"0">> ELSE <<"5">>)

\* ------------------------------------------------------ classifier bounds
\* Cap on the rows one run of the classifier appends under SpecClassifier.
MaxRows == 2
\* Cap on the typed buffer under SpecClassifier.
ShortText == 1
\* Cap on the typed buffer under SpecText.
MaxText == 3
\* Keys typed into the buffer under SpecClassifier.
ShortKeys == {"0", "1", "q"}
\* Keys typed into the buffer under SpecText: the space, a letter and keys
\* that are commands outside custom-text entry.
TypedKeys == {" ", "a", "0", "1", "q", "j", "u", "w"}
\* Keys no branch of the chain names.
PlainKeys == {"a", " "}

\* ------------------------------------------------------------ the store
HeaderRow == << <<"attempt_number">>, <<"attempt_start_time">>,
                <<"attempt_end_time">>, <<"attempt_start_frame">>,
                <<"attempt_end_frame">>, <<"cross_time">>, <<"cross_frame">> >>

\* CsvRow that tests the cross values for truth, not for None: frame 0 and
\* time 0.0 are written as ''.
CsvRowFalsy(a) ==
    << IntStr(a.number), FloatStr(a.start_time), FloatStr(a.end_time),
       IntStr(a.start_frame), IntStr(a.end_frame),
       IF IsNone(a.cross_time) \/ Val(a.cross_time) = 0
       THEN <<>> ELSE FloatStr(Val(a.cross_time)),
       IF IsNone(a.cross_frame) \/ Val(a.cross_frame) = 0
       THEN <<>> ELSE IntStr(Val(a.cross_frame)) >>

\* The row csv.writer writes for an attempt: '' for an absent cross.
CsvRow(a) == << IntStr(a.number), FloatStr(a.start_time), FloatStr(a.end_time),
                IntStr(a.start_frame), IntStr(a.end_frame),
                IF IsNone(a.cross_time) THEN <<>> ELSE FloatStr(Val(a.cross_time)),
                IF IsNone(a.cross_frame) THEN <<>> ELSE IntStr(Val(a.cross_frame)) >>

RECURSIVE CsvRows(_)
CsvRows(as) == IF as = <<>> THEN <<>>
               ELSE <<CsvRow(Head(as))>> \o CsvRows(Tail(as))

\* open(csv_file, 'w'): header, then one row per remaining attempt.
RewriteCsv(as) == <<HeaderRow>> \o CsvRows(as)

\* ------------------------------------------------- reading the store back
DigitVal(ch) == CHOOSE d \in 0..9 : Digits[d + 1] = ch

RECURSIVE IntOf(_)
\* int(s) of a string of digits
IntOf(s) == IF Len(s) = 1 THEN DigitVal(s[1])
            ELSE 10 * IntOf(SubSeq(s, 1, Len(s) - 1)) + DigitVal(s[Len(s)])

\* Position of the "." in the text of a float
DotAt(s) == CHOOSE i \in 1..Len(s) : s[i] = "."

\* float(s), in half seconds as TimeOf
FloatOf(s) == fps * IntOf(SubSeq(s, 1, DotAt(s) - 1))
              + (IF SubSeq(s, DotAt(s) + 1, Len(s)) = <<"5">> THEN 1 ELSE 0)

\* LoadRow that tests the converted cross values for truth: a cross on
\* frame 0 is loaded as None.
LoadRowFalsy(row) ==
    [number      |-> IntOf(row[1]),
     start_time  |-> FloatOf(row[2]),
     end_time    |-> FloatOf(row[3]),
     start_frame |-> IntOf(row[4]),
     end_frame   |-> IntOf(row[5]),
     cross_time  |-> IF row[6] # <<>> /\ FloatOf(row[6]) # 0
                     THEN Some(FloatOf(row[6])) ELSE None,
     cross_frame |-> IF row[7] # <<>> /\ IntOf(row[7]) # 0
                     THEN Some(IntOf(row[7])) ELSE None]

\* The attempt the loader builds from a row: an empty cross cell is None.
LoadRow(row) ==
    [number      |-> IntOf(row[1]),
     start_time  |-> FloatOf(row[2]),
     end_time    |-> FloatOf(row[3]),
     start_frame |-> IntOf(row[4]),
     end_frame   |-> IntOf(row[5]),
     cross_time  |-> IF row[6] # <<>> THEN Some(FloatOf(row[6])) ELSE None,
     cross_frame |-> IF row[7] # <<>> THEN Some(IntOf(row[7])) ELSE None]

RECURSIVE LoadRows(_)
\* for row in reader: recorded_attempts.append(...), rows after the header
LoadRows(rows) == IF rows = <<>> THEN <<>>
                  ELSE <<LoadRow(Head(rows))>> \o LoadRows(Tail(rows))

VARIABLES
    total_frames,         \* frames of the video
    current_frame,        \* the cursor
    attempt_number,       \* next-attempt counter
    attempt_start_frame,  \* pending start (None / Some)
    attempt_start_time,
    cross_frame,          \* pending cross (None / Some)
    cross_time,
    recorded_attempts,    \* in-memory list of committed attempts
    csv_file,             \* rows of the store, header first
    key,                  \* last key read by waitKey ("" before the first)
    attempts_to_remove,   \* what the last rewind erased (<<>> otherwise)
    running,              \* FALSE once 'q' left the loop
    pc,                   \* where the running program stands
    \* the classifier (total_frames, current_frame and key are its own too)
    df,                   \* the loaded input table, one row per attempt
    current_attempt_index,
    flag_menu_active,
    custom_input_mode,
    custom_text,          \* the typed characters, a sequence
    classified,
    falling_block_value,  \* None / Some(verdict)
    is_flagged,           \* 0 / 1
    reason_for_flag,      \* a sequence of characters
    output_csv,           \* rows appended to the output by this run
    undecodable           \* frames of the video the frame source cannot read

\* The classifier's own variables.
clsvars == <<df, current_attempt_index, flag_menu_active, custom_input_mode,
             custom_text, classified, falling_block_value, is_flagged,
             reason_for_flag, output_csv, undecodable>>

\* The marker's own variables.
mrkvars == <<attempt_number, attempt_start_frame, attempt_start_time,
             cross_frame, cross_time, recorded_attempts, csv_file,
             attempts_to_remove, running>>

vars == <<total_frames, current_frame, key, pc, mrkvars, clsvars>>

\* ------------------------------------------------------------- helpers
Max(a, b) == IF a >= b THEN a ELSE b
Min(a, b) == IF a <= b THEN a ELSE b

RECURSIVE MaxNumber(_)
\* max(a['number'] for a in recorded_attempts), list not empty
MaxNumber(as) == IF Len(as) = 1 THEN as[1].number
                 ELSE Max(as[1].number, MaxNumber(Tail(as)))

\* Top of the loop: seek to the cursor and read; a failed read puts the
\* cursor on the last frame.  The frame source decodes exactly the frames
\* 0 .. total_frames-1.
ReadFrame(c) == IF c >= 0 /\ c < total_frames THEN c ELSE total_frames - 1

\* current_time of the iteration
current_time == TimeOf(current_frame)

\* -------------------------------------------------------------- Init
\* The classifier is not run.
ClassifierIdle ==
    /\ df = <<>>
    /\ current_attempt_index = 0
    /\ flag_menu_active = FALSE
    /\ custom_input_mode = FALSE
    /\ custom_text = <<>>
    /\ classified = FALSE
    /\ falling_block_value = None
    /\ is_flagged = 0
    /\ reason_for_flag = <<>>
    /\ output_csv = <<>>
    /\ undecodable = {}

\* State when the loop first waits for a key, store newly created.
InitFor(frames) ==
    /\ total_frames = frames
    /\ current_frame = 0
    /\ attempt_number = 1
    /\ attempt_start_frame = None
    /\ attempt_start_time = None
    /\ cross_frame = None
    /\ cross_time = None
    /\ recorded_attempts = <<>>
    /\ csv_file = <<HeaderRow>>
    /\ key = ""
    /\ attempts_to_remove = <<>>
    /\ running = TRUE
    /\ pc = "wait"
    /\ ClassifierIdle

Init == InitFor(ShortFrames)
InitLong == InitFor(LongFrames)

\* 'k': advance one frame
AdvanceOne ==
    /\ running
    /\ key' = "k"
    /\ UNCHANGED <<pc, clsvars>>
    /\ LET new_frame == current_frame + 1
       IN current_frame' = ReadFrame(IF new_frame >= total_frames
                                     THEN total_frames - 1 ELSE new_frame)
    /\ attempts_to_remove' = <<>>
    /\ UNCHANGED <<total_frames, attempt_number, attempt_start_frame,
                   attempt_start_time, cross_frame, cross_time,
                   recorded_attempts, csv_file, running>>

\* 'l': advance ten frames
AdvanceTen ==
    /\ running
    /\ key' = "l"
    /\ UNCHANGED <<pc, clsvars>>
    /\ LET new_frame == current_frame + 10
       IN current_frame' = ReadFrame(Min(total_frames - 1, new_frame))
    /\ attempts_to_remove' = <<>>
    /\ UNCHANGED <<total_frames, attempt_number, attempt_start_frame,
                   attempt_start_time, cross_frame, cross_time,
                   recorded_attempts, csv_file, running>>

\* MarkStart that leaves a pending cross in place.
MarkStartKeepCross ==
    /\ running
    /\ key' = "1"
    /\ UNCHANGED <<pc, clsvars>>
    /\ attempt_start_frame' = Some(current_frame)
    /\ attempt_start_time' = Some(current_time)
    /\ current_frame' = ReadFrame(current_frame)
    /\ attempts_to_remove' = <<>>
    /\ UNCHANGED <<total_frames, attempt_number, recorded_attempts, csv_file,
                   running, cross_frame, cross_time>>

\* '1': mark attempt start
MarkStart ==
    /\ running
    /\ key' = "1"
    /\ UNCHANGED <<pc, clsvars>>
    /\ attempt_start_frame' = Some(current_frame)
    /\ attempt_start_time' = Some(current_time)
    /\ cross_frame' = None
    /\ cross_time' = None
    /\ current_frame' = ReadFrame(current_frame)
    /\ attempts_to_remove' = <<>>
    /\ UNCHANGED <<total_frames, attempt_number, recorded_attempts, csv_file,
                   running>>

\* MarkCross without the test for a pending start.
MarkCrossUnguarded ==
    /\ running
    /\ key' = "2"
    /\ UNCHANGED <<pc, clsvars>>
    /\ cross_frame' = Some(current_frame)
    /\ cross_time' = Some(current_time)
    /\ current_frame' = ReadFrame(current_frame)
    /\ attempts_to_remove' = <<>>
    /\ UNCHANGED <<total_frames, attempt_number, attempt_start_frame,
                   attempt_start_time, recorded_attempts, csv_file, running>>

\* '2': mark cross frame; a warning only when no start is pending
MarkCross ==
    /\ running
    /\ key' = "2"
    /\ UNCHANGED <<pc, clsvars>>
    /\ IF ~IsNone(attempt_start_frame)
       THEN /\ cross_frame' = Some(current_frame)
            /\ cross_time' = Some(current_time)
       ELSE UNCHANGED <<cross_frame, cross_time>>
    /\ current_frame' = ReadFrame(current_frame)
    /\ attempts_to_remove' = <<>>
    /\ UNCHANGED <<total_frames, attempt_number, attempt_start_frame,
                   attempt_start_time, recorded_attempts, csv_file, running>>

\* NewAttempt that drops the marked cross.
NewAttemptNoCross ==
    [number      |-> attempt_number,
     start_time  |-> Val(attempt_start_time),
     end_time    |-> current_time,
     start_frame |-> Val(attempt_start_frame),
     end_frame   |-> current_frame,
     cross_time  |-> None,
     cross_frame |-> None]

\* The attempt '3' assembles at the cursor.
NewAttempt ==
    [number      |-> attempt_number,
     start_time  |-> Val(attempt_start_time),
     end_time    |-> current_time,
     start_frame |-> Val(attempt_start_frame),
     end_frame   |-> current_frame,
     cross_time  |-> cross_time,
     cross_frame |-> cross_frame]

\* '3': mark attempt end, append to the store and to the list; a warning
\* only when no start is pending
MarkEndUpTo(cap) ==
    /\ running
    /\ key' = "3"
    /\ UNCHANGED <<pc, clsvars>>
    /\ ~IsNone(attempt_start_frame) => Len(recorded_attempts) < cap
    /\ IF ~IsNone(attempt_start_frame)
       THEN /\ csv_file' = Append(csv_file, CsvRow(NewAttempt))
            /\ recorded_attempts' = Append(recorded_attempts, NewAttempt)
            /\ attempt_number' = attempt_number + 1
            /\ attempt_start_frame' = None
            /\ attempt_start_time' = None
            /\ cross_frame' = None
            /\ cross_time' = None
       ELSE UNCHANGED <<csv_file, recorded_attempts, attempt_number,
                        attempt_start_frame, attempt_start_time, cross_frame,
                        cross_time>>
    /\ current_frame' = ReadFrame(current_frame)
    /\ attempts_to_remove' = <<>>
    /\ UNCHANGED <<total_frames, running>>

MarkEnd == MarkEndUpTo(MaxAttempts)
MarkEndLong == MarkEndUpTo(LongAttempts)

\* Erased with an exclusive boundary.
ErasedExclusive(f, new_frame) == f > new_frame

\* The comparison that decides whether a rewind to new_frame erases an
\* attempt, or clears a pending mark at frame f.
Erased(f, new_frame) == f >= new_frame

\* ToRemove that stops at the first attempt it finds.
ToRemoveFirstOnly(as, new_frame) ==
    LET all == SelectSeq(as, LAMBDA a : Erased(a.end_frame, new_frame))
    IN IF all = <<>> THEN <<>> ELSE <<Head(all)>>

\* for attempt in recorded_attempts: if erased: attempts_to_remove.append
ToRemove(as, new_frame) ==
    SelectSeq(as, LAMBDA a : Erased(a.end_frame, new_frame))

RECURSIVE RemoveFirst(_, _)
\* list.remove(x): drops the first element equal to x
RemoveFirst(as, x) ==
    IF as = <<>> THEN <<>>
    ELSE IF Head(as) = x THEN Tail(as)
    ELSE <<Head(as)>> \o RemoveFirst(Tail(as), x)

RECURSIVE RemoveAllSkipping(_, _)
\* RemoveAll that skips the element after each one it removes, as removing
\* from a list while iterating over it does.
RemoveAllSkipping(as, rem) ==
    IF rem = <<>> THEN as
    ELSE RemoveAllSkipping(RemoveFirst(as, Head(rem)),
                           IF Len(rem) >= 2 THEN Tail(Tail(rem)) ELSE <<>>)

RECURSIVE RemoveAll(_, _)
\* for attempt in attempts_to_remove: recorded_attempts.remove(attempt)
\* (the order of the removals does not change the resulting list)
RemoveAll(as, rem) ==
    IF rem = <<>> THEN as
    ELSE RemoveAll(RemoveFirst(as, Head(rem)), Tail(rem))

\* RenumberAfter that leaves out the + 1.
RenumberAfterSame(as) == IF as # <<>> THEN MaxNumber(as) ELSE 1

\* attempt_number after an erasure
\* RenumberAfter that takes the highest number left, without the + 1.
RenumberAfterMax(as) == IF as # <<>> THEN MaxNumber(as) ELSE 1

RenumberAfter(as) == IF as # <<>> THEN MaxNumber(as) + 1 ELSE 1

\* Whether the pending marks are looked at by a rewind that erased rem.
ChecksPending(rem) == rem # <<>>

\* ClampLow that does not clamp.
ClampLowOff(nf) == nf

\* new_frame = max(0, new_frame)
ClampLow(nf) == Max(0, nf)

\* HandleRewindAndUndo that resets the pending start only, never the
\* pending cross.
HandleRewindAndUndoKeepCross(nf) ==
    LET new_frame == ClampLow(nf)
        rem       == ToRemove(recorded_attempts, new_frame)
        remaining == RemoveAll(recorded_attempts, rem)
    IN /\ attempts_to_remove' = rem
       /\ IF rem # <<>>
          THEN /\ recorded_attempts' = remaining
               /\ csv_file' = RewriteCsv(remaining)
               /\ attempt_number' = RenumberAfter(remaining)
          ELSE UNCHANGED <<recorded_attempts, csv_file, attempt_number>>
       /\ IF ChecksPending(rem) /\ ~IsNone(attempt_start_frame)
             /\ Erased(Val(attempt_start_frame), new_frame)
          THEN /\ attempt_start_frame' = None
               /\ attempt_start_time' = None
          ELSE UNCHANGED <<attempt_start_frame, attempt_start_time>>
       /\ UNCHANGED <<cross_frame, cross_time>>
       /\ current_frame' = ReadFrame(new_frame)

\* handle_rewind_and_undo(new_frame, ...), then the top of the loop
HandleRewindAndUndo(nf) ==
    LET new_frame == ClampLow(nf)
        rem       == ToRemove(recorded_attempts, new_frame)
        remaining == RemoveAll(recorded_attempts, rem)
    IN /\ attempts_to_remove' = rem
       /\ IF rem # <<>>
          THEN /\ recorded_attempts' = remaining
               /\ csv_file' = RewriteCsv(remaining)
               /\ attempt_number' = RenumberAfter(remaining)
          ELSE UNCHANGED <<recorded_attempts, csv_file, attempt_number>>
       /\ IF ChecksPending(rem) /\ ~IsNone(attempt_start_frame)
             /\ Erased(Val(attempt_start_frame), new_frame)
          THEN /\ attempt_start_frame' = None
               /\ attempt_start_time' = None
          ELSE UNCHANGED <<attempt_start_frame, attempt_start_time>>
       /\ IF ChecksPending(rem) /\ ~IsNone(cross_frame)
             /\ Erased(Val(cross_frame), new_frame)
          THEN /\ cross_frame' = None
               /\ cross_time' = None
          ELSE UNCHANGED <<cross_frame, cross_time>>
       /\ current_frame' = ReadFrame(new_frame)

\* 'j': rewind one frame
RewindOne ==
    /\ running
    /\ key' = "j"
    /\ UNCHANGED <<pc, clsvars>>
    /\ IF current_frame > 0
       THEN HandleRewindAndUndo(current_frame - 1)
       ELSE /\ current_frame' = ReadFrame(current_frame)
            /\ attempts_to_remove' = <<>>
            /\ UNCHANGED <<attempt_number, attempt_start_frame,
                           attempt_start_time, cross_frame, cross_time,
                           recorded_attempts, csv_file>>
    /\ UNCHANGED <<total_frames, running>>

\* 'h': rewind ten frames
RewindTen ==
    /\ running
    /\ key' = "h"
    /\ UNCHANGED <<pc, clsvars>>
    /\ IF current_frame > 0
       THEN HandleRewindAndUndo(current_frame - 10)
       ELSE /\ current_frame' = ReadFrame(current_frame)
            /\ attempts_to_remove' = <<>>
            /\ UNCHANGED <<attempt_number, attempt_start_frame,
                           attempt_start_time, cross_frame, cross_time,
                           recorded_attempts, csv_file>>
    /\ UNCHANGED <<total_frames, running>>

\* 'q': leave the loop
Quit ==
    /\ running
    /\ key' = "q"
    /\ UNCHANGED <<pc, clsvars>>
    /\ running' = FALSE
    /\ attempts_to_remove' = <<>>
    /\ UNCHANGED <<total_frames, current_frame, attempt_number,
                   attempt_start_frame, attempt_start_time, cross_frame,
                   cross_time, recorded_attempts, csv_file>>

\* any other key: nothing
OtherKey ==
    /\ running
    /\ key' = "other"
    /\ UNCHANGED <<pc, clsvars>>
    /\ current_frame' = ReadFrame(current_frame)
    /\ attempts_to_remove' = <<>>
    /\ UNCHANGED <<total_frames, attempt_number, attempt_start_frame,
                   attempt_start_time, cross_frame, cross_time,
                   recorded_attempts, csv_file, running>>

Next ==
    \/ AdvanceOne
    \/ AdvanceTen
    \/ MarkStart
    \/ MarkCross
    \/ MarkEnd
    \/ RewindOne
    \/ RewindTen
    \/ Quit
    \/ OtherKey

Spec == Init /\ [][Next]_vars

\* A session on the long video in which the operator marks no cross.
NextLong ==
    \/ AdvanceOne
    \/ AdvanceTen
    \/ MarkStart
    \/ MarkEndLong
    \/ RewindOne
    \/ RewindTen
    \/ Quit
    \/ OtherKey

SpecLong == InitLong /\ [][NextLong]_vars

\* ------------------------------------------- the rewrite, step by step
\* SpecCrash runs the marker with the rewrite of the store (lines 468-478)
\* in two steps, between which the process may stop: open(csv_file, 'w')
\* empties the file at once; the header and the rows, written through
\* Python's buffer, reach the file when the with block closes it.

\* new_frame of the rewind in progress, from the key that started it
RewindTarget == ClampLow(current_frame - (IF key = "j" THEN 1 ELSE 10))

\* Whether a rewind by step frames from the cursor erases nothing.
ErasesNothing(step) ==
    \/ current_frame = 0
    \/ ToRemove(recorded_attempts, ClampLow(current_frame - step)) = <<>>

\* 'j' / 'h' erasing some attempt, up to open(csv_file, 'w') at line 469
RewindBegin(k, step) ==
    LET new_frame == ClampLow(current_frame - step)
        rem       == ToRemove(recorded_attempts, new_frame)
    IN /\ running
       /\ pc = "wait"
       /\ current_frame > 0
       /\ rem # <<>>
       /\ key' = k
       /\ attempts_to_remove' = rem
       /\ recorded_attempts' = RemoveAll(recorded_attempts, rem)
       /\ csv_file' = <<>>
       /\ pc' = "rewrite"
       /\ UNCHANGED <<total_frames, current_frame, attempt_number,
                      attempt_start_frame, attempt_start_time, cross_frame,
                      cross_time, running, clsvars>>

RewindOneBegin == RewindBegin("j", 1)
RewindTenBegin == RewindBegin("h", 10)

\* lines 470-499: header and remaining rows written, file closed, counter
\* and pending marks updated, new_frame returned; then the top of the loop
RewriteFinish ==
    /\ running
    /\ pc = "rewrite"
    /\ csv_file' = RewriteCsv(recorded_attempts)
    /\ attempt_number' = RenumberAfter(recorded_attempts)
    /\ IF ~IsNone(attempt_start_frame)
          /\ Erased(Val(attempt_start_frame), RewindTarget)
       THEN /\ attempt_start_frame' = None
            /\ attempt_start_time' = None
       ELSE UNCHANGED <<attempt_start_frame, attempt_start_time>>
    /\ IF ~IsNone(cross_frame) /\ Erased(Val(cross_frame), RewindTarget)
       THEN /\ cross_frame' = None
            /\ cross_time' = None
       ELSE UNCHANGED <<cross_frame, cross_time>>
    /\ current_frame' = ReadFrame(RewindTarget)
    /\ pc' = "wait"
    /\ UNCHANGED <<total_frames, key, recorded_attempts, attempts_to_remove,
                   running, clsvars>>

\* The process stops while the file is open for the rewrite.
Crash ==
    /\ running
    /\ pc = "rewrite"
    /\ running' = FALSE
    /\ UNCHANGED <<total_frames, current_frame, key, pc, attempt_number,
                   attempt_start_frame, attempt_start_time, cross_frame,
                   cross_time, recorded_attempts, csv_file,
                   attempts_to_remove, clsvars>>

NextCrash ==
    \/ pc = "wait" /\ AdvanceOne
    \/ pc = "wait" /\ AdvanceTen
    \/ pc = "wait" /\ MarkStart
    \/ pc = "wait" /\ MarkCross
    \/ pc = "wait" /\ MarkEnd
    \/ pc = "wait" /\ ErasesNothing(1) /\ RewindOne
    \/ pc = "wait" /\ ErasesNothing(10) /\ RewindTen
    \/ pc = "wait" /\ Quit
    \/ pc = "wait" /\ OtherKey
    \/ RewindOneBegin
    \/ RewindTenBegin
    \/ RewriteFinish
    \/ Crash

SpecCrash == Init /\ [][NextCrash]_vars

\* ------------------------------------------------- starting again
\* The marker is started again on the same video after 'q': the store
\* exists, so its rows are loaded (lines 215-251) and the loop waits for the
\* first key.
Restart ==
    /\ ~running
    /\ pc = "wait"
    /\ LET loaded == LoadRows(Tail(csv_file))
       IN /\ recorded_attempts' = loaded
          /\ attempt_number' = IF loaded # <<>> THEN MaxNumber(loaded) + 1
                               ELSE 1
          /\ current_frame' =
                ReadFrame(IF loaded # <<>>
                          THEN Min(loaded[Len(loaded)].end_frame, total_frames - 1)
                          ELSE 0)
    /\ attempt_start_frame' = None
    /\ attempt_start_time' = None
    /\ cross_frame' = None
    /\ cross_time' = None
    /\ key' = ""
    /\ attempts_to_remove' = <<>>
    /\ running' = TRUE
    /\ UNCHANGED <<total_frames, csv_file, pc, clsvars>>

NextRestart ==
    \/ Next
    \/ Restart

SpecRestart == Init /\ [][NextRestart]_vars

\* ==================================================== the classifier
\* The input tables: 'Start Frame index' and 'End Frame index' of each row.
TwoIntervals == << [start_frame |-> 1, end_frame |-> 1],
                   [start_frame |-> 2, end_frame |-> 2] >>
OneInterval == << [start_frame |-> 1, end_frame |-> 2] >>

OutputHeader == << <<"Start Frame index">>, <<"End Frame index">>,
                   <<"ground_truth_block_drop">>, <<"is_flagged">>,
                   <<"reason_for_flag">> >>

ReasonW == <<"Block transferred, but failure because the fingers did not cross">>
ReasonE == <<"Block transferred, but fingers might not have crossed">>
ReasonR == <<"Needs manual review">>

\* output_row.values as the csv writer writes them
OutputRow(row, value, flagged, reason) ==
    << IntStr(row.start_frame), IntStr(row.end_frame), IntStr(value),
       IntStr(flagged), reason >>

RECURSIVE LStrip(_)
LStrip(s) == IF s # <<>> /\ Head(s) = " " THEN LStrip(Tail(s)) ELSE s

RECURSIVE RStrip(_)
RStrip(s) == IF s # <<>> /\ s[Len(s)] = " "
             THEN RStrip(SubSeq(s, 1, Len(s) - 1)) ELSE s

\* strip() that removes the leading spaces only.
StripLeft(s) == LStrip(s)

\* custom_text.strip()
Strip(s) == RStrip(LStrip(s))

\* State when the classifier enters its loop on table t: output newly
\* created with its header, first interval reset (lines 83-112).
InitClassifierOn(frames, t, bad) ==
    /\ total_frames = frames
    /\ attempt_number = 1
    /\ attempt_start_frame = None
    /\ attempt_start_time = None
    /\ cross_frame = None
    /\ cross_time = None
    /\ recorded_attempts = <<>>
    /\ csv_file = <<HeaderRow>>
    /\ attempts_to_remove = <<>>
    /\ running = FALSE
    /\ key = ""
    /\ df = t
    /\ current_attempt_index = 0
    /\ classified = FALSE
    /\ falling_block_value = None
    /\ is_flagged = 0
    /\ reason_for_flag = <<>>
    /\ current_frame = t[1].start_frame
    /\ flag_menu_active = FALSE
    /\ custom_input_mode = FALSE
    /\ custom_text = <<>>
    /\ output_csv = <<OutputHeader>>
    /\ undecodable = bad
    /\ pc = "read"

\* Every frame of the video decodes.
InitClassifierFor(frames, t) == InitClassifierOn(frames, t, {})

InitClassifier(t) == InitClassifierFor(ShortFrames, t)

\* Lines 116-125 with a frame that decodes: clamp, seek, read, show, wait.
ReadOk ==
    /\ pc = "read"
    /\ LET c == Max(0, Min(current_frame, total_frames - 1))
       IN /\ c \notin undecodable
          /\ current_frame' = c
    /\ pc' = "wait"
    /\ UNCHANGED <<total_frames, key, mrkvars, df, current_attempt_index,
                   flag_menu_active, custom_input_mode, custom_text,
                   classified, falling_block_value, is_flagged,
                   reason_for_flag, output_csv, undecodable>>

\* Lines 116-125 with a frame that does not decode: clamp, seek, read, then
\* the cursor is put one past the clamped frame and the loop goes round.
ReadFail ==
    /\ pc = "read"
    /\ LET c == Max(0, Min(current_frame, total_frames - 1))
       IN /\ c \in undecodable
          /\ current_frame' = c + 1
    /\ UNCHANGED <<total_frames, key, pc, mrkvars, df, current_attempt_index,
                   flag_menu_active, custom_input_mode, custom_text,
                   classified, falling_block_value, is_flagged,
                   reason_for_flag, output_csv, undecodable>>

\* A key that leaves interval, output and verdict alone: back to line 114.
Stay(k) ==
    /\ pc = "wait"
    /\ key' = k
    /\ pc' = "read"
    /\ UNCHANGED <<total_frames, mrkvars, df, current_attempt_index,
                   classified, falling_block_value, is_flagged,
                   reason_for_flag, output_csv, undecodable>>

\* QuitClassifier without the test of the flag menu.
QuitAnyMenu ==
    /\ pc = "wait"
    /\ key' = "q"
    /\ pc' = "quit"
    /\ UNCHANGED <<total_frames, current_frame, mrkvars, clsvars>>

\* 'q' outside the flag menu, lines 206-210
QuitClassifier ==
    /\ pc = "wait"
    /\ ~flag_menu_active
    /\ key' = "q"
    /\ pc' = "quit"
    /\ UNCHANGED <<total_frames, current_frame, mrkvars, clsvars>>

\* 'j', lines 211-213
BackOne ==
    /\ ~custom_input_mode
    /\ Stay("j")
    /\ current_frame' = Max(0, current_frame - 1)
    /\ UNCHANGED <<flag_menu_active, custom_input_mode, custom_text>>

\* 'k', lines 214-216
ForwardOne ==
    /\ ~custom_input_mode
    /\ Stay("k")
    /\ current_frame' = Min(total_frames - 1, current_frame + 1)
    /\ UNCHANGED <<flag_menu_active, custom_input_mode, custom_text>>

\* 'h', lines 217-219
BackTen ==
    /\ ~custom_input_mode
    /\ Stay("h")
    /\ current_frame' = Max(0, current_frame - 10)
    /\ UNCHANGED <<flag_menu_active, custom_input_mode, custom_text>>

\* ForwardTen that stops at the end frame of the interval.
ForwardTenInInterval ==
    /\ ~custom_input_mode
    /\ Stay("l")
    /\ current_frame' = Min(df[current_attempt_index + 1].end_frame,
                            current_frame + 10)
    /\ UNCHANGED <<flag_menu_active, custom_input_mode, custom_text>>

\* 'l', lines 220-222
ForwardTen ==
    /\ ~custom_input_mode
    /\ Stay("l")
    /\ current_frame' = Min(total_frames - 1, current_frame + 10)
    /\ UNCHANGED <<flag_menu_active, custom_input_mode, custom_text>>

\* JumpTo that leaves the cursor where it is.
JumpToKeepCursor(k, i) ==
    /\ pc = "wait"
    /\ key' = k
    /\ current_attempt_index' = i
    /\ classified' = FALSE
    /\ falling_block_value' = None
    /\ is_flagged' = 0
    /\ reason_for_flag' = <<>>
    /\ flag_menu_active' = FALSE
    /\ custom_input_mode' = FALSE
    /\ custom_text' = <<>>
    /\ pc' = "read"
    /\ UNCHANGED <<total_frames, current_frame, mrkvars, df, output_csv,
                   undecodable>>

\* The break of lines 229 and 238 with classified = False: nothing is
\* saved, the outer loop resets the interval at index i (lines 92-112).
JumpTo(k, i) ==
    /\ pc = "wait"
    /\ key' = k
    /\ current_attempt_index' = i
    /\ classified' = FALSE
    /\ falling_block_value' = None
    /\ is_flagged' = 0
    /\ reason_for_flag' = <<>>
    /\ current_frame' = df[i + 1].start_frame
    /\ flag_menu_active' = FALSE
    /\ custom_input_mode' = FALSE
    /\ custom_text' = <<>>
    /\ pc' = "read"
    /\ UNCHANGED <<total_frames, mrkvars, df, output_csv, undecodable>>

\* 'u' with an interval before the current one, lines 223-229
PrevAttempt ==
    /\ ~custom_input_mode /\ ~flag_menu_active
    /\ current_attempt_index > 0
    /\ JumpTo("u", current_attempt_index - 1)

\* 'u' at the first interval, lines 230-231
PrevAttemptAtFirst ==
    /\ ~custom_input_mode /\ ~flag_menu_active
    /\ ~(current_attempt_index > 0)
    /\ Stay("u")
    /\ UNCHANGED <<current_frame, flag_menu_active, custom_input_mode,
                   custom_text>>

\* 'i' with an interval after the current one, lines 232-238
NextAttempt ==
    /\ ~custom_input_mode /\ ~flag_menu_active
    /\ current_attempt_index < Len(df) - 1
    /\ JumpTo("i", current_attempt_index + 1)

\* NextAttemptAtLast that steps past the last interval, which ends the
\* outer loop.
NextAttemptAtLastEnds ==
    /\ ~custom_input_mode /\ ~flag_menu_active
    /\ ~(current_attempt_index < Len(df) - 1)
    /\ pc = "wait"
    /\ key' = "i"
    /\ current_attempt_index' = current_attempt_index + 1
    /\ pc' = "done"
    /\ UNCHANGED <<total_frames, current_frame, mrkvars, df, flag_menu_active,
                   custom_input_mode, custom_text, classified,
                   falling_block_value, is_flagged, reason_for_flag,
                   output_csv, undecodable>>

\* 'i' at the last interval, lines 239-240
NextAttemptAtLast ==
    /\ ~custom_input_mode /\ ~flag_menu_active
    /\ ~(current_attempt_index < Len(df) - 1)
    /\ Stay("i")
    /\ UNCHANGED <<current_frame, flag_menu_active, custom_input_mode,
                   custom_text>>

\* Commit whose next interval keeps is_flagged and reason_for_flag of the
\* interval just committed.
CommitKeepFlag(k, value, flagged, reason) ==
    /\ pc = "wait"
    /\ Len(output_csv) - 1 < MaxRows
    /\ key' = k
    /\ output_csv' = Append(output_csv,
                            OutputRow(df[current_attempt_index + 1],
                                      value, flagged, reason))
    /\ current_attempt_index' = current_attempt_index + 1
    /\ is_flagged' = flagged
    /\ reason_for_flag' = reason
    /\ IF current_attempt_index + 1 < Len(df)
       THEN /\ classified' = FALSE
            /\ falling_block_value' = None
            /\ current_frame' = df[current_attempt_index + 2].start_frame
            /\ flag_menu_active' = FALSE
            /\ custom_input_mode' = FALSE
            /\ custom_text' = <<>>
            /\ pc' = "read"
       ELSE /\ classified' = TRUE
            /\ falling_block_value' = Some(value)
            /\ pc' = "done"
            /\ UNCHANGED <<current_frame, flag_menu_active,
                           custom_input_mode, custom_text>>
    /\ UNCHANGED <<total_frames, mrkvars, df, undecodable>>

\* Commit whose next interval keeps the menu state and the buffer of the
\* interval just committed.
CommitKeepMenu(k, value, flagged, reason) ==
    /\ pc = "wait"
    /\ Len(output_csv) - 1 < MaxRows
    /\ key' = k
    /\ output_csv' = Append(output_csv,
                            OutputRow(df[current_attempt_index + 1],
                                      value, flagged, reason))
    /\ current_attempt_index' = current_attempt_index + 1
    /\ IF current_attempt_index + 1 < Len(df)
       THEN /\ classified' = FALSE
            /\ falling_block_value' = None
            /\ is_flagged' = 0
            /\ reason_for_flag' = <<>>
            /\ current_frame' = df[current_attempt_index + 2].start_frame
            /\ pc' = "read"
            /\ UNCHANGED <<flag_menu_active, custom_input_mode, custom_text>>
       ELSE /\ classified' = TRUE
            /\ falling_block_value' = Some(value)
            /\ is_flagged' = flagged
            /\ reason_for_flag' = reason
            /\ pc' = "done"
            /\ UNCHANGED <<current_frame, flag_menu_active,
                           custom_input_mode, custom_text>>
    /\ UNCHANGED <<total_frames, mrkvars, df, undecodable>>

\* classified = True: the inner loop ends, the row is appended (lines
\* 310-320), the index advances (325) and either the next interval is reset
\* (92-112) or the outer loop ends (327-333).
Commit(k, value, flagged, reason) ==
    /\ pc = "wait"
    /\ Len(output_csv) - 1 < MaxRows
    /\ key' = k
    /\ output_csv' = Append(output_csv,
                            OutputRow(df[current_attempt_index + 1],
                                      value, flagged, reason))
    /\ current_attempt_index' = current_attempt_index + 1
    /\ IF current_attempt_index + 1 < Len(df)
       THEN /\ classified' = FALSE
            /\ falling_block_value' = None
            /\ is_flagged' = 0
            /\ reason_for_flag' = <<>>
            /\ current_frame' = df[current_attempt_index + 2].start_frame
            /\ flag_menu_active' = FALSE
            /\ custom_input_mode' = FALSE
            /\ custom_text' = <<>>
            /\ pc' = "read"
       ELSE /\ classified' = TRUE
            /\ falling_block_value' = Some(value)
            /\ is_flagged' = flagged
            /\ reason_for_flag' = reason
            /\ pc' = "done"
            /\ UNCHANGED <<current_frame, flag_menu_active,
                           custom_input_mode, custom_text>>
    /\ UNCHANGED <<total_frames, mrkvars, df, undecodable>>

\* ClassifyNoDrop without the test of the flag menu.
ClassifyNoDropAnyMenu ==
    Commit("0", 0, is_flagged, reason_for_flag)

\* '0' outside the flag menu, lines 241-244: only the value is set, the row
\* takes is_flagged and reason_for_flag as the interval's reset left them.
ClassifyNoDrop ==
    /\ ~flag_menu_active
    /\ Commit("0", 0, is_flagged, reason_for_flag)

\* '1' outside the flag menu, lines 245-248
ClassifyDrop ==
    /\ ~flag_menu_active
    /\ Commit("1", 1, is_flagged, reason_for_flag)

\* ToggleFlagMenu that flips the flag menu only, leaving custom-text entry
\* and the buffer as they are.
ToggleFlagMenuOnly ==
    /\ Stay("2")
    /\ flag_menu_active' = ~flag_menu_active
    /\ UNCHANGED <<current_frame, custom_input_mode, custom_text>>

\* '2', lines 249-261
ToggleFlagMenu ==
    /\ Stay("2")
    /\ flag_menu_active' = ~flag_menu_active
    /\ custom_input_mode' = FALSE
    /\ custom_text' = <<>>
    /\ UNCHANGED current_frame

\* 'w' in the flag menu, lines 264-269
FlagW ==
    /\ flag_menu_active /\ ~custom_input_mode
    /\ Commit("w", 2, 1, ReasonW)

\* FlagE with the value and the reason of 'w'.
FlagEAsW ==
    /\ flag_menu_active /\ ~custom_input_mode
    /\ Commit("e", 2, 1, ReasonW)

\* 'e' in the flag menu, lines 270-275
FlagE ==
    /\ flag_menu_active /\ ~custom_input_mode
    /\ Commit("e", 3, 1, ReasonE)

\* 'r' in the flag menu, lines 276-281
FlagR ==
    /\ flag_menu_active /\ ~custom_input_mode
    /\ Commit("r", 4, 1, ReasonR)

\* 't' in the flag menu, lines 282-286
FlagT ==
    /\ flag_menu_active /\ ~custom_input_mode
    /\ Stay("t")
    /\ custom_input_mode' = TRUE
    /\ custom_text' = <<>>
    /\ UNCHANGED <<current_frame, flag_menu_active>>

\* FlagOther that closes the flag menu on a key it does not know.
FlagOtherClosesMenu ==
    /\ flag_menu_active /\ ~custom_input_mode
    /\ \E k \in {"q", "u", "i", "0", "1", "Enter", "Esc", "Backspace"}
                \cup PlainKeys :
          Stay(k)
    /\ flag_menu_active' = FALSE
    /\ UNCHANGED <<current_frame, custom_input_mode, custom_text>>

\* Keys that reach the flag menu's branch (line 262) and match none of its
\* options: 'q', 'u', 'i', '0', '1' fall through their own branches because
\* the flag menu is active.
FlagOther ==
    /\ flag_menu_active /\ ~custom_input_mode
    /\ \E k \in {"q", "u", "i", "0", "1", "Enter", "Esc", "Backspace"}
                \cup PlainKeys :
          Stay(k)
    /\ UNCHANGED <<current_frame, flag_menu_active, custom_input_mode,
                   custom_text>>

\* Key k gets to the custom-text branch (line 287): no branch above it
\* takes the key.
ReachesCustom(k) ==
    /\ custom_input_mode
    /\ ~(flag_menu_active /\ ~custom_input_mode)
    /\ k # "2"
    /\ ~(k \in {"q", "0", "1"} /\ ~flag_menu_active)
    /\ ~(k \in {"j", "k", "h", "l"} /\ ~custom_input_mode)
    /\ ~(k \in {"u", "i"} /\ ~custom_input_mode /\ ~flag_menu_active)

\* Esc (27), lines 289-293
CustomEscape ==
    /\ ReachesCustom("Esc")
    /\ Stay("Esc")
    /\ custom_input_mode' = FALSE
    /\ custom_text' = <<>>
    /\ UNCHANGED <<current_frame, flag_menu_active>>

\* Enter (13) with text left after strip(), lines 294-300
CustomEnter ==
    /\ ReachesCustom("Enter")
    /\ Strip(custom_text) # <<>>
    /\ Commit("Enter", 5, 1, Strip(custom_text))

\* Enter (13) with nothing left after strip(), lines 301-302
CustomEnterEmpty ==
    /\ ReachesCustom("Enter")
    /\ Strip(custom_text) = <<>>
    /\ Stay("Enter")
    /\ UNCHANGED <<current_frame, flag_menu_active, custom_input_mode,
                   custom_text>>

\* Backspace (8 or 127), lines 303-305
CustomBackspace ==
    /\ ReachesCustom("Backspace")
    /\ Stay("Backspace")
    /\ custom_text' = IF custom_text # <<>>
                      THEN SubSeq(custom_text, 1, Len(custom_text) - 1)
                      ELSE custom_text
    /\ UNCHANGED <<current_frame, flag_menu_active, custom_input_mode>>

\* A printable character (32..126) out of keys, lines 306-307; the buffer
\* is typed up to cap characters.
CustomChar(keys, cap) ==
    /\ Len(custom_text) < cap
    /\ \E k \in keys :
          /\ ReachesCustom(k)
          /\ Stay(k)
          /\ custom_text' = custom_text \o <<k>>
    /\ UNCHANGED <<current_frame, flag_menu_active, custom_input_mode>>

\* A key no branch of the chain takes in the main menu.
NoBranch ==
    /\ ~flag_menu_active /\ ~custom_input_mode
    /\ \E k \in {"w", "e", "r", "t", "Enter", "Esc", "Backspace"}
                \cup PlainKeys :
          Stay(k)
    /\ UNCHANGED <<current_frame, flag_menu_active, custom_input_mode,
                   custom_text>>

InitTwo == InitClassifier(TwoIntervals)

CustomCharShort == CustomChar(ShortKeys, ShortText)

NextClassifier ==
    \/ ReadOk
    \/ QuitClassifier
    \/ BackOne
    \/ ForwardOne
    \/ BackTen
    \/ ForwardTen
    \/ PrevAttempt
    \/ PrevAttemptAtFirst
    \/ NextAttempt
    \/ NextAttemptAtLast
    \/ ClassifyNoDrop
    \/ ClassifyDrop
    \/ ToggleFlagMenu
    \/ FlagW
    \/ FlagE
    \/ FlagR
    \/ FlagT
    \/ FlagOther
    \/ CustomEscape
    \/ CustomEnter
    \/ CustomEnterEmpty
    \/ CustomBackspace
    \/ CustomCharShort
    \/ NoBranch

SpecClassifier == InitTwo /\ [][NextClassifier]_vars

InitOne == InitClassifier(OneInterval)

CustomCharTyped == CustomChar(TypedKeys, MaxText)

\* The table of SpecText has one interval: 'u' and 'i' never jump.
NextText ==
    \/ ReadOk
    \/ QuitClassifier
    \/ BackOne
    \/ ForwardOne
    \/ BackTen
    \/ ForwardTen
    \/ PrevAttemptAtFirst
    \/ NextAttemptAtLast
    \/ ClassifyNoDrop
    \/ ClassifyDrop
    \/ ToggleFlagMenu
    \/ FlagW
    \/ FlagE
    \/ FlagR
    \/ FlagT
    \/ FlagOther
    \/ CustomEscape
    \/ CustomEnter
    \/ CustomEnterEmpty
    \/ CustomBackspace
    \/ CustomCharTyped
    \/ NoBranch

SpecText == InitOne /\ [][NextText]_vars

\* The classifier on the long video, on which a step of ten frames lands
\* inside the video as well as on its ends.
InitLongVideo == InitClassifierFor(LongFrames, OneInterval)

SpecLongVideo == InitLongVideo /\ [][NextText]_vars


\* The classifier on a video some frames of which never decode.
InitDecode ==
    \E bad \in SUBSET (0..(ShortFrames - 1)) :
        InitClassifierOn(ShortFrames, OneInterval, bad)

NextDecode ==
    \/ ReadOk
    \/ ReadFail
    \/ QuitClassifier
    \/ BackOne
    \/ ForwardOne
    \/ BackTen
    \/ ForwardTen
    \/ PrevAttemptAtFirst
    \/ NextAttemptAtLast
    \/ ClassifyNoDrop
    \/ ClassifyDrop
    \/ ToggleFlagMenu
    \/ FlagW
    \/ FlagE
    \/ FlagR
    \/ FlagT
    \/ FlagOther
    \/ CustomEscape
    \/ CustomEnter
    \/ CustomEnterEmpty
    \/ CustomBackspace
    \/ CustomCharShort
    \/ NoBranch

\* The loop runs on its own from the read to the wait for a key (lines
\* 114-204); only the keys depend on the operator.
SpecDecode ==
    /\ InitDecode
    /\ [][NextDecode]_vars
    /\ WF_vars(ReadOk)
    /\ WF_vars(ReadFail)

\* ================================================================ claims
Last(seq) == seq[Len(seq)]
IsRewindKey(k) == k \in {"j", "h"}
StepOf(k) == IF k = "j" THEN 1 ELSE 10
\* The attempts the store holds, read back row by row.
StoreAttempts(csv) == LoadRows(Tail(csv))
\* A rewind key pressed with the cursor past frame 0.
RewindStep == IsRewindKey(key') /\ current_frame > 0

\* C1: '3' with a start pending at cursor c appends exactly one Attempt with
\* the pending start frame, the pending cross frame (absent if none) and end
\* frame c to the list and to the store, adds one to the counter and clears
\* the pending start and cross.
C1_MarkEndCommits ==
    [][(key' = "3" /\ ~IsNone(attempt_start_frame)) =>
        /\ Len(recorded_attempts') = Len(recorded_attempts) + 1
        /\ SubSeq(recorded_attempts', 1, Len(recorded_attempts)) = recorded_attempts
        /\ Last(recorded_attempts').start_frame = Val(attempt_start_frame)
        /\ Last(recorded_attempts').cross_frame = cross_frame
        /\ Last(recorded_attempts').end_frame = current_frame
        /\ Len(csv_file') = Len(csv_file) + 1
        /\ SubSeq(csv_file', 1, Len(csv_file)) = csv_file
        /\ LoadRow(Last(csv_file')) = Last(recorded_attempts')
        /\ attempt_number' = attempt_number + 1
        /\ IsNone(attempt_start_frame')
        /\ IsNone(cross_frame')]_vars

\* C1 witness: start 0, cross 1, end 2 has just been committed.
C1_Witness ==
    /\ key = "3"
    /\ recorded_attempts # <<>>
    /\ Last(recorded_attempts).start_frame = 0
    /\ Last(recorded_attempts).cross_frame = Some(1)
    /\ Last(recorded_attempts).end_frame = 2
    /\ IsNone(attempt_start_frame)

\* C2: a rewind key pressed at a cursor > 0 moves the cursor to
\* p = max(0, old - step); afterwards the list is exactly the attempts with
\* end_frame < p, the store holds exactly those in the same order, and the
\* counter is max(remaining numbers) + 1, or 1 if none remain.
C2_InclusiveInvalidation ==
    [][RewindStep =>
        LET p == Max(0, current_frame - StepOf(key'))
            rest == SelectSeq(recorded_attempts, LAMBDA a : a.end_frame < p)
        IN /\ current_frame' = p
           /\ recorded_attempts' = rest
           /\ Head(csv_file') = HeaderRow
           /\ StoreAttempts(csv_file') = rest
           /\ attempt_number' = IF rest = <<>> THEN 1
                                ELSE MaxNumber(rest) + 1]_vars

\* C2 witness: 'j' has just erased the attempt ending on the new cursor and
\* kept an earlier one.
C2_Witness ==
    /\ key = "j"
    /\ attempts_to_remove # <<>>
    /\ attempts_to_remove[1].end_frame = current_frame
    /\ recorded_attempts # <<>>
    /\ Len(csv_file) = Len(recorded_attempts) + 1

\* C3 as stated: rewinding to the frame equal to Attempt k's end_frame removes
\* exactly Attempts k..N, leaves 1..k-1 and the next commit is numbered k.
C3_RewindToEndOfK ==
    [][\A k \in 1..Len(recorded_attempts) :
        (RewindStep /\ current_frame' = recorded_attempts[k].end_frame) =>
            /\ recorded_attempts' = SubSeq(recorded_attempts, 1, k - 1)
            /\ StoreAttempts(csv_file') = SubSeq(recorded_attempts, 1, k - 1)
            /\ attempt_number' = k]_vars

\* First attempt of the list ending at or after frame f.
FirstEndingFrom(as, f) ==
    CHOOSE j \in 1..Len(as) :
        /\ as[j].end_frame >= f
        /\ \A i \in 1..(j - 1) : as[i].end_frame < f

\* C3 amended: rewinding to the frame equal to Attempt k's end_frame removes
\* exactly Attempts j..N, j being the first Attempt that ends on that frame
\* (j = k unless an earlier Attempt has the same end_frame), leaves 1..j-1
\* unchanged in list and store, and the next commit is numbered j.
C3_RewindToEndOfKAmended ==
    [][\A k \in 1..Len(recorded_attempts) :
        (RewindStep /\ current_frame' = recorded_attempts[k].end_frame) =>
            LET j == FirstEndingFrom(recorded_attempts, recorded_attempts[k].end_frame)
            IN /\ recorded_attempts[j].end_frame = recorded_attempts[k].end_frame
               /\ j <= k
               /\ recorded_attempts' = SubSeq(recorded_attempts, 1, j - 1)
               /\ StoreAttempts(csv_file') = SubSeq(recorded_attempts, 1, j - 1)
               /\ attempt_number' = j]_vars

\* C3 witness: a rewind to the end frame of Attempt 2 has erased it and left
\* Attempt 1, the next number being 2.
C3_Witness ==
    /\ IsRewindKey(key)
    /\ Len(attempts_to_remove) = 1
    /\ attempts_to_remove[1].number = 2
    /\ attempts_to_remove[1].end_frame = current_frame
    /\ Len(recorded_attempts) = 1
    /\ attempt_number = 2

\* C4: with at least one recorded Attempt, a rewind to a frame strictly less
\* than Attempt 1's start_frame leaves list and store empty and the counter 1.
C4_RewindBeforeFirstStart ==
    [][(RewindStep /\ recorded_attempts # <<>>
        /\ current_frame' < recorded_attempts[1].start_frame) =>
            /\ recorded_attempts' = <<>>
            /\ csv_file' = <<HeaderRow>>
            /\ attempt_number' = 1]_vars

\* C5: the numbers of the recorded Attempts, in list order, are 1, 2, .., N.
C5_NumbersContiguous ==
    \A i \in 1..Len(recorded_attempts) : recorded_attempts[i].number = i

\* C5 witness: a rewind has erased Attempts 1 and 2 together.
C5_Witness ==
    /\ IsRewindKey(key)
    /\ Len(attempts_to_remove) = 2
    /\ recorded_attempts = <<>>
    /\ attempt_number = 1

\* C6: every committed Attempt has 0 <= start_frame <= end_frame < total_frames.
C6_FramesOrdered ==
    \A i \in 1..Len(recorded_attempts) :
        /\ 0 <= recorded_attempts[i].start_frame
        /\ recorded_attempts[i].start_frame <= recorded_attempts[i].end_frame
        /\ recorded_attempts[i].end_frame < total_frames

\* C7: every committed Attempt that carries a cross_frame has
\* start_frame <= cross_frame <= end_frame.
C7_CrossBetween ==
    \A i \in 1..Len(recorded_attempts) :
        ~IsNone(recorded_attempts[i].cross_frame) =>
            /\ recorded_attempts[i].start_frame <= Val(recorded_attempts[i].cross_frame)
            /\ Val(recorded_attempts[i].cross_frame) <= recorded_attempts[i].end_frame

\* C8: after every backward cursor motion to p no pending start_frame and no
\* pending cross_frame is >= p, whether or not an Attempt was invalidated.
C8_PendingClearedOnRewind ==
    [][RewindStep =>
        /\ ~IsNone(attempt_start_frame') => Val(attempt_start_frame') < current_frame'
        /\ ~IsNone(cross_frame') => Val(cross_frame') < current_frame']_vars

\* C9: '3' or '2' with no start pending changes nothing (cursor, pending
\* start and cross, list, counter, store) and the loop goes on.
C9_InvalidMarkNoChange ==
    [][(key' \in {"2", "3"} /\ IsNone(attempt_start_frame)) =>
        /\ UNCHANGED <<current_frame, attempt_start_frame, attempt_start_time,
                       cross_frame, cross_time, recorded_attempts,
                       attempt_number, csv_file>>
        /\ running']_vars

\* C9 witness: '2' has just been pressed with nothing pending.
C9_Witness ==
    /\ key = "2"
    /\ IsNone(attempt_start_frame)
    /\ IsNone(cross_frame)
    /\ running

\* C10: the cursor stays in 0 .. total_frames-1 under 'k', 'l', 'j', 'h', and
\* a motion that would leave the range lands on the nearest bound.
C10_CursorClamped ==
    /\ [](0 <= current_frame /\ current_frame <= total_frames - 1)
    /\ [][/\ key' = "k" => current_frame' = Min(current_frame + 1, total_frames - 1)
          /\ key' = "l" => current_frame' = Min(current_frame + 10, total_frames - 1)
          /\ key' = "j" => current_frame' = Max(current_frame - 1, 0)
          /\ key' = "h" => current_frame' = Max(current_frame - 10, 0)]_vars

\* C10 witness: 'h' has just moved the cursor from the last frame to a frame
\* inside the video.
C10_Witness ==
    /\ key = "h"
    /\ current_frame = total_frames - 11
    /\ current_frame > 0

\* C11: whenever the loop waits for a key the rows of the store after the
\* header are exactly the in-memory list, same order and same field values; a
\* commit appends one row, an invalidation leaves the remaining list in the
\* store, and no other key changes the store.
C11_StoreMirrorsList ==
    /\ [](/\ Head(csv_file) = HeaderRow
          /\ Len(csv_file) = Len(recorded_attempts) + 1
          /\ StoreAttempts(csv_file) = recorded_attempts)
    /\ [][/\ (key' = "3" /\ ~IsNone(attempt_start_frame)) =>
                /\ Len(csv_file') = Len(csv_file) + 1
                /\ SubSeq(csv_file', 1, Len(csv_file)) = csv_file
          /\ (IsRewindKey(key') /\ attempts_to_remove' # <<>>) =>
                /\ Len(csv_file') = Len(csv_file) - Len(attempts_to_remove')
                /\ csv_file' = SubSeq(csv_file, 1, Len(csv_file'))
          /\ (~(key' = "3" /\ ~IsNone(attempt_start_frame))
              /\ ~(IsRewindKey(key') /\ attempts_to_remove' # <<>>)) =>
                csv_file' = csv_file]_vars

\* C11 witness: two attempts are in list and store, the first with its cross
\* on frame 0 and the second without a cross.
C11_Witness ==
    /\ key = "3"
    /\ Len(recorded_attempts) = 2
    /\ Len(csv_file) = 3
    /\ recorded_attempts[1].cross_frame = Some(0)
    /\ IsNone(recorded_attempts[2].cross_frame)

\* The rows in the file, header apart.
StoreRows(csv) == IF csv = <<>> THEN <<>> ELSE Tail(csv)

\* C12: at every point of the rewrite an invalidation triggers, also one at
\* which the process stops, the store holds either all the rows it had before
\* the rewrite or exactly the remaining rows.
C12_RewriteAtomic ==
    pc = "rewrite" =>
        \/ StoreRows(csv_file) = CsvRows(recorded_attempts \o attempts_to_remove)
        \/ StoreRows(csv_file) = CsvRows(recorded_attempts)

\* The two-step rewrite ends in the state the one-step rewind reaches: list,
\* store and counter agree once the loop waits again.
CrashSpecAgrees ==
    (pc = "wait") =>
        /\ csv_file = RewriteCsv(recorded_attempts)
        /\ attempt_number = Len(recorded_attempts) + 1

\* C13: starting the marker again after 'q' on the store it wrote reloads
\* exactly the attempts held in memory at the quit, with the same number,
\* start/end frame, cross frame (absent stays absent, frame 0 stays 0) and
\* times, sets the counter to max(number) + 1 and puts the cursor on
\* min(last end_frame, total_frames - 1).
C13_RoundTrip ==
    [][(~running /\ running') =>
        /\ Len(recorded_attempts') = Len(csv_file) - 1
        /\ Len(recorded_attempts') = Len(recorded_attempts)
        /\ \A i \in 1..Len(recorded_attempts) :
              /\ recorded_attempts'[i].number = recorded_attempts[i].number
              /\ recorded_attempts'[i].start_frame = recorded_attempts[i].start_frame
              /\ recorded_attempts'[i].end_frame = recorded_attempts[i].end_frame
              /\ recorded_attempts'[i].cross_frame = recorded_attempts[i].cross_frame
              /\ recorded_attempts'[i].start_time = recorded_attempts[i].start_time
              /\ recorded_attempts'[i].end_time = recorded_attempts[i].end_time
              /\ recorded_attempts'[i].cross_time = recorded_attempts[i].cross_time
        /\ recorded_attempts # <<>> =>
              /\ attempt_number' = MaxNumber(recorded_attempts) + 1
              /\ current_frame' = Min(Last(recorded_attempts).end_frame,
                                      total_frames - 1)]_vars

\* C13 witness: the marker has just been started again on a store of two
\* attempts, one with its cross on frame 0 and one without a cross, and
\* stands on the end frame of the last one.
C13_Witness ==
    /\ running
    /\ key = ""
    /\ Len(recorded_attempts) = 2
    /\ \E i \in 1..2 : recorded_attempts[i].cross_frame = Some(0)
    /\ \E i \in 1..2 : IsNone(recorded_attempts[i].cross_frame)
    /\ current_frame = recorded_attempts[2].end_frame
    /\ attempt_number = 3

\* ------------------------------------------------ classifier claims
\* A step in which the classifier takes key k off the keyboard.
KeyStep(k) == pc = "wait" /\ pc' # "wait" /\ key' = k

MainMenu == ~flag_menu_active /\ ~custom_input_mode
FlagMenu == flag_menu_active /\ ~custom_input_mode
CustomText == custom_input_mode

\* The interval the loop is working on.
CurrentRow == df[current_attempt_index + 1]

\* The step appends exactly one row, for the current interval, with the
\* cells value, flagged and reason, and advances the index by one.
Commits(value, flagged, reason) ==
    /\ output_csv' = Append(output_csv,
                            << IntStr(CurrentRow.start_frame),
                               IntStr(CurrentRow.end_frame),
                               value, flagged, reason >>)
    /\ current_attempt_index' = current_attempt_index + 1

\* The step appends nothing and stays on the interval.
CommitsNothing ==
    /\ output_csv' = output_csv
    /\ current_attempt_index' = current_attempt_index

\* C14: in the main menu '0' and '1' commit the current interval with
\* verdict 0 and 1, is_flagged 0 and an empty reason and advance to the next
\* interval; with the flag menu or custom-text entry active they commit
\* nothing.
C14_DirectVerdict ==
    [][\A d \in {"0", "1"} :
          KeyStep(d) =>
             IF MainMenu THEN Commits(<<d>>, <<"0">>, <<>>)
             ELSE CommitsNothing]_vars

\* C14 witness: '1' has just committed the first interval from the main
\* menu and the second interval is about to be shown.
C14_Witness ==
    /\ key = "1"
    /\ pc = "read"
    /\ current_attempt_index = 1
    /\ output_csv = << OutputHeader,
                       << <<"1">>, <<"1">>, <<"1">>, <<"0">>, <<>> >> >>
    /\ current_frame = 2

\* The fixed (verdict, reason) pair of a flag key.
FixedVerdict(k) == IF k = "w" THEN <<"2">> ELSE IF k = "e" THEN <<"3">>
                   ELSE <<"4">>
FixedReason(k) ==
    IF k = "w"
    THEN <<"Block transferred, but failure because the fingers did not cross">>
    ELSE IF k = "e"
    THEN <<"Block transferred, but fingers might not have crossed">>
    ELSE <<"Needs manual review">>

\* C15: in the flag menu (custom-text entry not active) 'w', 'e', 'r' commit
\* the current interval with verdict 2, 3, 4, is_flagged 1 and the key's
\* fixed reason; in the main menu the same keys commit nothing.
C15_FlagKeys ==
    [][\A k \in {"w", "e", "r"} :
          KeyStep(k) =>
             /\ FlagMenu => Commits(FixedVerdict(k), <<"1">>, FixedReason(k))
             /\ MainMenu => CommitsNothing]_vars

\* C15 witness: the first interval was committed by 'w' and the second by
\* 'r', both from the flag menu, which ended the run.
C15_Witness ==
    /\ key = "r"
    /\ pc = "done"
    /\ Len(output_csv) = 3
    /\ output_csv[2] = << <<"1">>, <<"1">>, <<"2">>, <<"1">>, FixedReason("w") >>
    /\ output_csv[3] = << <<"2">>, <<"2">>, <<"4">>, <<"1">>, FixedReason("r") >>

\* s without its leading and trailing spaces.
Trimmed(s) ==
    IF \A i \in 1..Len(s) : s[i] = " " THEN <<>>
    ELSE LET first == CHOOSE i \in 1..Len(s) :
                         s[i] # " " /\ \A j \in 1..(i - 1) : s[j] = " "
             last  == CHOOSE i \in 1..Len(s) :
                         s[i] # " " /\ \A j \in (i + 1)..Len(s) : s[j] = " "
         IN SubSeq(s, first, last)

\* C16: in custom-text entry Enter commits exactly when the buffer without
\* leading and trailing spaces is not empty, with verdict 5, is_flagged 1
\* and that trimmed buffer as reason; otherwise nothing is appended, the
\* index is unchanged and custom-text entry stays active with the buffer
\* unchanged.
C16_SubmitCustom ==
    [][(KeyStep("Enter") /\ CustomText) =>
          IF Trimmed(custom_text) # <<>>
          THEN Commits(<<"5">>, <<"1">>, Trimmed(custom_text))
          ELSE /\ CommitsNothing
               /\ custom_input_mode'
               /\ flag_menu_active' = flag_menu_active
               /\ custom_text' = custom_text
               /\ pc' = "read"]_vars

\* C16 witness: Enter has committed the buffer " a " as reason "a".
C16_Witness ==
    /\ key = "Enter"
    /\ pc = "done"
    /\ custom_text = <<" ", "a", " ">>
    /\ output_csv = << OutputHeader,
                       << <<"1">>, <<"2">>, <<"5">>, <<"1">>, <<"a">> >> >>

\* C17: in the main menu 'u' and 'i' append no row; when the target
\* interval exists the index changes by -1 / +1, the cursor is set to the
\* target's start frame and the inner state is reset; 'u' at the first
\* interval and 'i' at the last leave index, cursor and output unchanged.
C17_Navigation ==
    [][\A k \in {"u", "i"} :
          (KeyStep(k) /\ MainMenu) =>
             LET target == IF k = "u" THEN current_attempt_index - 1
                           ELSE current_attempt_index + 1
             IN /\ output_csv' = output_csv
                /\ IF target >= 0 /\ target < Len(df)
                   THEN /\ current_attempt_index' = target
                        /\ current_frame' = df[target + 1].start_frame
                        /\ flag_menu_active' = FALSE
                        /\ custom_input_mode' = FALSE
                        /\ custom_text' = <<>>
                        /\ falling_block_value' = None
                        /\ is_flagged' = 0
                        /\ reason_for_flag' = <<>>
                   ELSE /\ current_attempt_index' = current_attempt_index
                        /\ current_frame' = current_frame]_vars

\* C17 witness: after the first interval was committed 'u' has gone back
\* to it: the output still has its one row and the cursor is on the first
\* interval's start frame.
C17_Witness ==
    /\ key = "u"
    /\ pc = "read"
    /\ current_attempt_index = 0
    /\ Len(output_csv) = 2
    /\ current_frame = df[1].start_frame

\* A step in which a key triggers a commit: a direct verdict in the main
\* menu, a fixed flag key in the flag menu, or Enter on a buffer that is
\* not blank in custom-text entry.
CommitTriggered ==
    /\ pc = "wait"
    /\ pc' # "wait"
    /\ \/ key' \in {"0", "1"} /\ MainMenu
       \/ key' \in {"w", "e", "r"} /\ FlagMenu
       \/ key' = "Enter" /\ CustomText /\ Trimmed(custom_text) # <<>>

\* C18: a commit, from whichever state it is triggered, appends exactly one
\* row and leaves the rows already written unchanged and in place, advances
\* the index by one, and the next interval starts in the main menu with an
\* empty buffer, is_flagged 0 and an empty reason; no step changes or
\* removes a row already written.
C18_CommitEffect ==
    [][/\ CommitTriggered =>
             /\ Len(output_csv') = Len(output_csv) + 1
             /\ SubSeq(output_csv', 1, Len(output_csv)) = output_csv
             /\ current_attempt_index' = current_attempt_index + 1
             /\ current_attempt_index' < Len(df) =>
                   /\ ~flag_menu_active'
                   /\ ~custom_input_mode'
                   /\ custom_text' = <<>>
                   /\ is_flagged' = 0
                   /\ reason_for_flag' = <<>>
                   /\ pc' = "read"
       /\ Len(output_csv') >= Len(output_csv)
       /\ SubSeq(output_csv', 1, Len(output_csv)) = output_csv]_vars

\* C18 witness: with one row already written for the first interval, 'e'
\* in the flag menu has committed it a second time; both rows are in the
\* output and the second interval starts in the main menu.
C18_Witness ==
    /\ key = "e"
    /\ pc = "read"
    /\ current_attempt_index = 1
    /\ Len(output_csv) = 3
    /\ output_csv[2][3] = <<"0">>
    /\ output_csv[3][3] = <<"3">>
    /\ ~flag_menu_active
    /\ custom_text = <<>>

\* C19: when the run has reached the end of the table the output holds
\* exactly one row for each interval of the table, in the table's order.
C19_OneRowEachInOrder ==
    pc = "done" =>
        /\ Len(output_csv) - 1 = Len(df)
        /\ \A i \in 1..Len(df) :
              /\ output_csv[i + 1][1] = IntStr(df[i].start_frame)
              /\ output_csv[i + 1][2] = IntStr(df[i].end_frame)

\* C20 as stated: 'q' ends the process in any state (main menu, flag menu,
\* custom-text entry), the rows written before stay in the output and no
\* row is appended.
C20_QuitAnyState ==
    [][KeyStep("q") => /\ pc' = "quit"
                       /\ output_csv' = output_csv]_vars

\* C20 amended: 'q' ends the process only while the flag menu is not
\* active; in the flag menu it is ignored and in custom-text entry it is
\* appended to the buffer, the loop going on in the same state.  In every
\* case the output and the index are unchanged, and after the process has
\* ended nothing changes any more.
C20_QuitAmended ==
    [][/\ KeyStep("q") =>
             /\ output_csv' = output_csv
             /\ current_attempt_index' = current_attempt_index
             /\ MainMenu => pc' = "quit"
             /\ FlagMenu => /\ pc' = "read"
                            /\ flag_menu_active' /\ ~custom_input_mode'
                            /\ custom_text' = custom_text
                            /\ current_frame' = current_frame
             /\ (CustomText /\ flag_menu_active) =>
                            /\ pc' = "read"
                            /\ flag_menu_active' /\ custom_input_mode'
                            /\ custom_text' = custom_text \o <<"q">>
                            /\ current_frame' = current_frame
       /\ pc # "quit"]_vars

\* C20 witness: with the row of the first interval in the output, 'q' has
\* been typed into the empty buffer of the second interval's custom-text
\* entry and the loop goes on.
C20_Witness ==
    /\ key = "q"
    /\ pc = "read"
    /\ custom_input_mode
    /\ custom_text = <<"q">>
    /\ current_attempt_index = 1
    /\ output_csv = << OutputHeader,
                       << <<"1">>, <<"1">>, <<"0">>, <<"0">>, <<>> >> >>

\* C21: in every row of the output is_flagged is 1 exactly when the verdict
\* is one of 2, 3, 4, 5 and 0 exactly when it is 0 or 1, and the reason is
\* not empty exactly when is_flagged is 1; so a flag or reason of one
\* interval never shows in the row of another.
C21_FlagAndReason ==
    \A i \in 2..Len(output_csv) :
        /\ output_csv[i][3] \in {<<"0">>, <<"1">>, <<"2">>, <<"3">>, <<"4">>, <<"5">>}
        /\ output_csv[i][4] \in {<<"0">>, <<"1">>}
        /\ output_csv[i][4] = <<"1">> <=>
              output_csv[i][3] \in {<<"2">>, <<"3">>, <<"4">>, <<"5">>}
        /\ output_csv[i][5] # <<>> <=> output_csv[i][4] = <<"1">>

\* C21 witness: the first interval was committed with a custom reason and
\* the second, after it, by '0': its row is not flagged and has no reason.
C21_Witness ==
    /\ pc = "done"
    /\ Len(output_csv) = 3
    /\ output_csv[2] = << <<"1">>, <<"1">>, <<"5">>, <<"1">>, <<"q">> >>
    /\ output_csv[3] = << <<"2">>, <<"2">>, <<"0">>, <<"0">>, <<>> >>

\* C22: '1', whatever is pending, makes the cursor the pending start (frame
\* and time), clears the pending cross and leaves the cursor, the list of
\* attempts, the counter and the store unchanged; a start that was pending
\* is replaced and not committed.
C22_MarkStart ==
    [][(running /\ key' = "1") =>
          /\ attempt_start_frame' = Some(current_frame)
          /\ attempt_start_time' = Some(TimeOf(current_frame))
          /\ cross_frame' = None
          /\ cross_time' = None
          /\ current_frame' = current_frame
          /\ recorded_attempts' = recorded_attempts
          /\ attempt_number' = attempt_number
          /\ csv_file' = csv_file]_vars

\* C22 witness: with one attempt recorded, '1' on the last frame has just
\* set the pending start there, no cross pending.
C22_Witness ==
    /\ running
    /\ key = "1"
    /\ current_frame = total_frames - 1
    /\ attempt_start_frame = Some(current_frame)
    /\ IsNone(cross_frame)
    /\ Len(recorded_attempts) = 1
    /\ attempt_number = 2

\* Keys with a code in 32..126 that the model presses.
PrintableKeys == TypedKeys \cup ShortKeys \cup PlainKeys \cup {"2"}

\* C23: in custom-text entry every printable key is appended to the end of
\* the buffer and changes nothing else, Backspace removes the last
\* character (nothing on an empty buffer), Esc returns to the flag menu
\* with the buffer emptied, and custom-text entry is left only by Esc and
\* by Enter on a buffer that is not blank.
C23_CustomTextKeys ==
    [][(pc = "wait" /\ pc' # "wait" /\ CustomText) =>
          /\ key' \in PrintableKeys =>
                /\ custom_text' = custom_text \o <<key'>>
                /\ custom_input_mode'
                /\ flag_menu_active' = flag_menu_active
                /\ current_frame' = current_frame
                /\ CommitsNothing
          /\ key' = "Backspace" =>
                /\ custom_text' = IF custom_text = <<>> THEN <<>>
                                  ELSE SubSeq(custom_text, 1, Len(custom_text) - 1)
                /\ custom_input_mode'
                /\ CommitsNothing
          /\ key' = "Esc" =>
                /\ flag_menu_active' /\ ~custom_input_mode'
                /\ custom_text' = <<>>
                /\ CommitsNothing
          /\ (~custom_input_mode' \/ pc' = "done" \/ current_attempt_index' # current_attempt_index) =>
                \/ key' = "Esc"
                \/ key' = "Enter" /\ Trimmed(custom_text) # <<>>]_vars

\* A key step taken in the flag menu.
FlagMenuStep == pc = "wait" /\ pc' # "wait" /\ FlagMenu

\* C24 as stated: in the flag menu every key other than 'w', 'e', 'r', 't'
\* and '2' (cursor motion, 'u', 'i', '0', '1', 'q' included) leaves cursor,
\* index, menu state and output unchanged.
C24_FlagMenuClosedKeys ==
    [][(FlagMenuStep /\ key' \notin {"w", "e", "r", "t", "2"}) =>
          /\ current_frame' = current_frame
          /\ CommitsNothing
          /\ flag_menu_active' /\ ~custom_input_mode'
          /\ custom_text' = custom_text]_vars

\* The cursor after key k where cursor motion is accepted.
MovedCursor(k) ==
    IF k = "j" THEN Max(0, current_frame - 1)
    ELSE IF k = "k" THEN Min(total_frames - 1, current_frame + 1)
    ELSE IF k = "h" THEN Max(0, current_frame - 10)
    ELSE IF k = "l" THEN Min(total_frames - 1, current_frame + 10)
    ELSE current_frame

\* C24 amended: in the flag menu 'j', 'k', 'h', 'l' move the cursor as in
\* the main menu (clamped to the video) and change nothing else; 't' enters
\* custom-text entry and '2' returns to the main menu, both without moving
\* the cursor; every key other than these and 'w', 'e', 'r' ('u', 'i', '0',
\* '1', 'q' included) leaves cursor, index, menu state and output
\* unchanged.
C24_FlagMenuAmended ==
    [][/\ (FlagMenuStep /\ key' \notin {"w", "e", "r", "t", "2"}) =>
             /\ current_frame' = MovedCursor(key')
             /\ CommitsNothing
             /\ flag_menu_active' /\ ~custom_input_mode'
             /\ custom_text' = custom_text
             /\ pc' = "read"
       /\ (FlagMenuStep /\ key' = "t") =>
             /\ flag_menu_active' /\ custom_input_mode'
             /\ current_frame' = current_frame
             /\ CommitsNothing
       /\ (FlagMenuStep /\ key' = "2") =>
             /\ ~flag_menu_active' /\ ~custom_input_mode'
             /\ current_frame' = current_frame
             /\ CommitsNothing]_vars

\* C24 witness: with the flag menu open on the first interval 'k' has moved
\* the cursor one frame past the interval's start; the menu is still open.
C24_Witness ==
    /\ key = "k"
    /\ pc = "read"
    /\ FlagMenu
    /\ current_attempt_index = 0
    /\ current_frame = df[1].start_frame + 1

\* C25: whenever a frame has been read for display the cursor is in
\* 0 .. total_frames-1; where cursor motion is accepted 'j', 'k', 'h', 'l'
\* move the cursor by -1, +1, -10, +10 clamped to the bounds of the video,
\* not to the interval's range, and change neither the index nor the
\* output.
C25_CursorMotion ==
    /\ [](pc # "read" => (current_frame >= 0 /\ current_frame < total_frames))
    /\ [][(pc = "wait" /\ pc' # "wait" /\ ~custom_input_mode
           /\ key' \in {"j", "k", "h", "l"}) =>
             /\ current_frame' = MovedCursor(key')
             /\ current_frame' >= 0 /\ current_frame' < total_frames
             /\ CommitsNothing
             /\ pc' = "read"]_vars

\* C25 witness: 'l' has moved the cursor ten frames forward to a frame
\* inside the video and past the end of the interval, and that frame is
\* shown.
C25_Witness ==
    /\ key = "l"
    /\ pc = "wait"
    /\ current_frame = 10
    /\ current_frame < total_frames - 1
    /\ current_frame > df[current_attempt_index + 1].end_frame

\* C26: a frame that does not decode is recovered from: the index and the
\* output are unchanged by the failed read, and from every cursor position,
\* the last frame of the video included, the loop gets to wait for a key.
C26_DecodeRecovered ==
    /\ [][(pc = "read" /\ pc' = "read") => CommitsNothing]_vars
    /\ (pc = "read") ~> (pc = "wait")

\* A step that appends to the output.
RowAppended == Len(output_csv') > Len(output_csv)

\* C27: the index stays in 0 .. N (N the number of intervals loaded), every
\* row is appended for an index in 0 .. N-1 and is that interval's row, the
\* loop ends exactly in the step that commits interval N-1, and 'i' at the
\* last interval does not end it.
C27_IndexInRange ==
    /\ [](/\ current_attempt_index >= 0
          /\ current_attempt_index <= Len(df)
          /\ pc = "done" <=> current_attempt_index = Len(df))
    /\ [][/\ RowAppended =>
                /\ current_attempt_index >= 0
                /\ current_attempt_index <= Len(df) - 1
                /\ Last(output_csv')[1] = IntStr(CurrentRow.start_frame)
                /\ Last(output_csv')[2] = IntStr(CurrentRow.end_frame)
          /\ (pc # "done" /\ pc' = "done") <=>
                (RowAppended /\ current_attempt_index = Len(df) - 1)
          /\ (KeyStep("i") /\ current_attempt_index = Len(df) - 1) =>
                /\ pc' = "read"
                /\ current_attempt_index' = current_attempt_index]_vars

\* C27 witness: 'i' was pressed on the last interval with the cursor moved
\* off its start frame: the loop goes on, on the same interval and frame.
C27_Witness ==
    /\ key = "i"
    /\ pc = "read"
    /\ current_attempt_index = Len(df) - 1
    /\ current_frame # df[Len(df)].start_frame
    /\ Len(output_csv) = 2

\* C28: in a session started from an empty store every recorded attempt
\* has end_frame <= cursor and the end frames are non-decreasing in list
\* order; so every rewind that erases removes a suffix of the list and
\* leaves the attempts before it in place.
C28_SuffixInvalidation ==
    /\ [](/\ \A i \in 1..Len(recorded_attempts) :
                recorded_attempts[i].end_frame <= current_frame
          /\ \A i \in 1..Len(recorded_attempts) :
                \A j \in i..Len(recorded_attempts) :
                   recorded_attempts[i].end_frame <= recorded_attempts[j].end_frame)
    /\ [][(running /\ IsRewindKey(key')) =>
             /\ Len(recorded_attempts') <= Len(recorded_attempts)
             /\ recorded_attempts' =
                   SubSeq(recorded_attempts, 1, Len(recorded_attempts'))
             /\ attempts_to_remove' =
                   SubSeq(recorded_attempts, Len(recorded_attempts') + 1,
                          Len(recorded_attempts))]_vars

\* C28 witness: of two recorded attempts a rewind has erased the second
\* and left the first.
C28_Witness ==
    /\ running
    /\ IsRewindKey(key)
    /\ Len(recorded_attempts) = 1
    /\ Len(attempts_to_remove) = 1
    /\ attempts_to_remove[1].number = 2
    /\ recorded_attempts[1].end_frame < attempts_to_remove[1].end_frame

\* C29: in a session started from an empty store the counter is the number
\* of recorded attempts plus one, so it is the number of no attempt in the
\* list or in the store.
C29_CounterIsCountPlusOne ==
    /\ attempt_number = Len(recorded_attempts) + 1
    /\ \A i \in 1..Len(recorded_attempts) :
          recorded_attempts[i].number # attempt_number
    /\ \A i \in 2..Len(csv_file) : csv_file[i][1] # IntStr(attempt_number)

\* C29 witness: a rewind has erased the second of two attempts and the
\* counter is back at 2, the number the next attempt will get.
C29_Witness ==
    /\ running
    /\ IsRewindKey(key)
    /\ Len(attempts_to_remove) = 1
    /\ attempts_to_remove[1].number = 2
    /\ Len(recorded_attempts) = 1
    /\ recorded_attempts[1].number = 1
    /\ attempt_number = 2

\* C30: a cross is pending only while a start is pending (frames and times
\* alike), and no rewind clears the pending start and leaves the pending
\* cross.
C30_CrossOnlyWithStart ==
    /\ [](/\ ~IsNone(cross_frame) => ~IsNone(attempt_start_frame)
          /\ IsNone(cross_frame) <=> IsNone(cross_time)
          /\ IsNone(attempt_start_frame) <=> IsNone(attempt_start_time))
    /\ [][(running /\ IsRewindKey(key') /\ ~IsNone(attempt_start_frame)
           /\ IsNone(attempt_start_frame')) => IsNone(cross_frame')]_vars

\* C30 witness: a start is pending on frame 2 and a cross on frame 1, and
\* a rewind to frame 0 has left both pending.
C30_Witness ==
    /\ running
    /\ IsRewindKey(key)
    /\ current_frame = 0
    /\ attempt_start_frame = Some(2)
    /\ cross_frame = Some(1)

\* C31: custom-text entry is active only while the flag menu is active and
\* the buffer is empty whenever custom-text entry is not active; custom-text
\* entry is entered only by 't' in the flag menu, and a step that closes the
\* flag menu leaves custom-text entry too.
C31_CustomInsideFlagMenu ==
    /\ [](/\ custom_input_mode => flag_menu_active
          /\ ~custom_input_mode => custom_text = <<>>)
    /\ [][/\ (~custom_input_mode /\ custom_input_mode') =>
                (FlagMenu /\ key' = "t" /\ flag_menu_active')
          /\ (flag_menu_active /\ ~flag_menu_active') =>
                (~custom_input_mode' /\ custom_text' = <<>>)]_vars

\* C31 witness: in custom-text entry, opened from the flag menu, two
\* characters have been typed; the flag menu is still active.
C31_Witness ==
    /\ pc = "wait"
    /\ custom_input_mode
    /\ flag_menu_active
    /\ custom_text = <<"a", "q">>
    /\ output_csv = <<OutputHeader>>
====
